---------------------------- MODULE Spec2Model ----------------------------
(***************************************************************************)
(* The two Streamlit dashboards of the repository, dashboard.py and        *)
(* dashboard_final.py, as one state machine.  Streamlit runs the whole     *)
(* script top to bottom on the first visit and again after every widget    *)
(* interaction; an action below is one such interaction followed by the    *)
(* complete script run it triggers.                                        *)
(*                                                                         *)
(* Abstractions.  A timestamp is represented by its calendar month         *)
(* (NaT for a missing one); a station name by its rank 1, 2, ... in        *)
(* lexicographic order of the names, which is the order pandas' groupby    *)
(* sorts by; a text file by its sequence of characters.                    *)
(***************************************************************************)
EXTENDS Integers, Sequences, FiniteSets, TLC

VARIABLES
    script,          \* which script Streamlit serves
    trip_csv,        \* 'citi_bike_2022_small_sample.csv'
    routes_csv,      \* 'citi_bike_top_1000_routes.csv'
    daily_csv,       \* 'citi_bike_daily_summary_2022.csv'
    map_html,        \* 'nyc_top_1000_bike_routes.html'
    tie_perm,        \* how this build's quicksort orders equal keys
    started,         \* the script has run at least once in the session
    cache,           \* what st.cache_data holds of load_data: <<>> or <<result>>
    df,              \* dashboard_final.py: the trip-record table
    df_top_20_stations, \* dashboard.py: the pre-aggregated station table
    df_daily,        \* the daily-summary table
    page,            \* value of the sidebar selectbox
    season_filter,   \* value of the sidebar multiselect
    widgets,         \* the widgets the latest run rendered
    io_log,          \* the files the latest run tried to open, in order
    out              \* what the latest run put on the page

vars == <<script, trip_csv, routes_csv, daily_csv, map_html, tie_perm,
          started, cache, df, df_top_20_stations, df_daily, page,
          season_filter, widgets, io_log, out>>

---------------------------------------------------------------------------
(* Bounds of the model. *)

\* Longest trip-level file, in rows.
MaxTrips == 3
\* Longest route file, in rows.
MaxRoutes == 2
\* Longest daily-summary file, in rows.
MaxDays == 2
\* Longest map asset, in characters.
MaxHtml == 2
\* nlargest(20), scaled to the model's three stations.
TopN == 2

\* Station names, by lexicographic rank.
Stations == {1, 2, 3}
\* pd.to_datetime gives NaT for an empty cell, and .dt.month of NaT is NaN;
\* both are written NaT here.
NaT == -1
Months == 1 .. 12
\* Timestamps of the aggregation runs: a month of Winter and a month of Fall.
SampleMonths == {1, 10}

Seqs(S, n) == UNION {[1 .. k -> S] : k \in 0 .. n}

---------------------------------------------------------------------------
(* Files. *)

TripPath == "citi_bike_2022_small_sample.csv"
RoutesPath == "citi_bike_top_1000_routes.csv"
DailyPath == "citi_bike_daily_summary_2022.csv"
MapPath == "nyc_top_1000_bike_routes.html"

File(content) == [exists |-> TRUE, content |-> content]
Missing == [exists |-> FALSE, content |-> <<>>]

TripRows(months) == [started_at : months, start_station_name : Stations]
RouteRows == [start_station_name : Stations, trip_count : 1 .. 2]
DailyTables ==
    UNION {{t \in [1 .. k -> [date : 1 .. k, trip_count : 0 .. 1, avgTemp : {0, 20}]] :
               \A i \in 1 .. k : t[i].date = i /\ t[i].avgTemp = 20 * t[i].trip_count}
           : k \in 0 .. MaxDays}
SampleDaily ==
    <<[date |-> 1, trip_count |-> 1, avgTemp |-> 20],
      [date |-> 2, trip_count |-> 0, avgTemp |-> 0]>>
HtmlChars == {"<", "\r", "\n"}
SampleMap == <<"<", "\n">>
SampleTrips ==
    <<[started_at |-> 1, start_station_name |-> 2],
      [started_at |-> 7, start_station_name |-> 1],
      [started_at |-> NaT, start_station_name |-> 1]>>
SampleRoutes ==
    <<[start_station_name |-> 2, trip_count |-> 2],
      [start_station_name |-> 1, trip_count |-> 1]>>

---------------------------------------------------------------------------
(* pandas helpers. *)

NaN == "NaN"

\* The distinct values of a column in order of first appearance: the key
\* order of the hash table behind value_counts.
RECURSIVE unique(_)
unique(col) ==
    IF col = <<>> THEN <<>>
    ELSE LET init == unique(SubSeq(col, 1, Len(col) - 1))
             last == col[Len(col)]
         IN IF \E i \in 1 .. Len(init) : init[i] = last
            THEN init ELSE Append(init, last)

CountOf(col, v) == Cardinality({i \in 1 .. Len(col) : col[i] = v})

\* The positions 1..n ordered by a strict total order, given as the set of
\* its pairs <<earlier, later>>.
SortPositions(n, before) ==
    [i \in 1 .. n |->
        CHOOSE p \in 1 .. n :
            Cardinality({q \in 1 .. n : <<q, p>> \in before}) = i - 1]

\* Series.sort_values(ascending=False) with the default kind='quicksort',
\* which is not stable: entries with equal values come out in an order the
\* build decides (tie_perm over their positions).  s is a sequence of
\* [key, val].
sort_values_desc(s) ==
    LET before == {pq \in (1 .. Len(s)) \X (1 .. Len(s)) :
                      \/ s[pq[1]].val > s[pq[2]].val
                      \/ /\ s[pq[1]].val = s[pq[2]].val
                         /\ tie_perm[pq[1]] < tie_perm[pq[2]]}
        order == SortPositions(Len(s), before)
    IN [i \in 1 .. Len(s) |-> s[order[i]]]

\* Series.value_counts(): counts per distinct value (NaN dropped), sorted
\* by descending count.
value_counts(col) ==
    LET keys == unique(col)
    IN sort_values_desc([i \in 1 .. Len(keys) |->
                            [key |-> keys[i], val |-> CountOf(col, keys[i])]])

\* Series.nlargest(n, keep='first'): when n covers the whole series pandas
\* sorts it and takes the head; otherwise it selects the n largest with a
\* stable sort, entries with equal values in their order in s.
nlargest(s, n) ==
    IF n >= Len(s)
    THEN SubSeq(sort_values_desc(s), 1, Len(s))
    ELSE LET before == {pq \in (1 .. Len(s)) \X (1 .. Len(s)) :
                           \/ s[pq[1]].val > s[pq[2]].val
                           \/ s[pq[1]].val = s[pq[2]].val /\ pq[1] < pq[2]}
             order == SortPositions(Len(s), before)
         IN [i \in 1 .. n |-> s[order[i]]]

Column(table, name) == [i \in 1 .. Len(table) |-> table[i][name]]
Index(s) == [i \in 1 .. Len(s) |-> s[i].key]
Range(s) == {s[i] : i \in 1 .. Len(s)}

---------------------------------------------------------------------------
(* dashboard_final.py: load_data. *)

\* The dict with December entered under Fall.
seasons_december_fall ==
    [m \in Months |->
        CASE m \in {1, 2} -> "Winter"
          [] m \in {3, 4, 5} -> "Spring"
          [] m \in {6, 7, 8} -> "Summer"
          [] m \in {9, 10, 11, 12} -> "Fall"]

\* The season of each month.
seasons ==
    [m \in Months |->
        CASE m \in {12, 1, 2} -> "Winter"
          [] m \in {3, 4, 5} -> "Spring"
          [] m \in {6, 7, 8} -> "Summer"
          [] m \in {9, 10, 11} -> "Fall"]

\* Series.map(dict) looks each value up; a value that is no key of the dict
\* (here only the NaN month of a missing timestamp) maps to NaN.
map_seasons(m) == IF m \in DOMAIN seasons THEN seasons[m] ELSE NaN

\* One row of df: the derived columns date, month and season added.
TripRecord(row) ==
    [started_at |-> row.started_at,
     date |-> row.started_at,
     month |-> row.started_at,
     season |-> map_seasons(row.started_at),
     start_station_name |-> row.start_station_name]

\* The result of a call: the tables, or the exception that ended it, and
\* the files it tried to open.
Loaded(t, d, log) == [raised |-> <<>>, table |-> t, daily |-> d, io |-> log]
Raised(path, log) ==
    [raised |-> <<"FileNotFoundError", path>>, table |-> <<>>, daily |-> <<>>, io |-> log]

\* load_data going on with an empty daily table when the daily file is
\* missing.
load_data_final_skips_daily ==
    IF ~trip_csv.exists THEN Raised(TripPath, <<TripPath>>)
    ELSE Loaded([i \in 1 .. Len(trip_csv.content) |-> TripRecord(trip_csv.content[i])],
                IF daily_csv.exists THEN daily_csv.content ELSE <<>>,
                <<TripPath, DailyPath>>)

load_data_final ==
    IF ~trip_csv.exists THEN Raised(TripPath, <<TripPath>>)
    ELSE IF ~daily_csv.exists THEN Raised(DailyPath, <<TripPath, DailyPath>>)
    ELSE Loaded([i \in 1 .. Len(trip_csv.content) |-> TripRecord(trip_csv.content[i])],
                daily_csv.content,
                <<TripPath, DailyPath>>)


\* st.cache_data: the stored result when there is one (no file is opened),
\* the function's own result otherwise.
cache_data(result) ==
    IF cache # <<>>
    THEN Loaded(cache[1].table, cache[1].daily, <<>>)
    ELSE result

---------------------------------------------------------------------------
(* What a run puts on the page. *)

NoFigure == [shown |-> FALSE, data |-> <<>>, categoryorder |-> ""]
Figure(traces, order) == [shown |-> TRUE, data |-> traces, categoryorder |-> order]

Blank ==
    [exception |-> <<>>,
     body |-> "",
     warning |-> FALSE,
     metric |-> <<>>,
     top_20_station_names |-> <<>>,
     df_stacked_data |-> <<>>,
     fig_stacked_bar |-> NoFigure,
     fig_bar |-> NoFigure,
     fig_line |-> NoFigure,
     html |-> <<>>,
     error |-> <<>>]

\* The dual-axis line chart of both scripts.
LineChart(daily) ==
    LET x == [i \in 1 .. Len(daily) |-> daily[i].date]
    IN Figure(<<[name |-> "Daily Bike Trips", x |-> x,
                 y |-> [i \in 1 .. Len(daily) |-> daily[i].trip_count]],
                [name |-> "Avg. Temp", x |-> x,
                 y |-> [i \in 1 .. Len(daily) |-> daily[i].avgTemp]]>>,
              "")

\* open(path, 'r').read(): text mode with universal newlines, so "\r\n" and
\* a lone "\r" are read as "\n".
RECURSIVE read_text(_)
read_text(chars) ==
    IF chars = <<>> THEN <<>>
    ELSE IF Head(chars) = "\r"
         THEN IF Len(chars) >= 2 /\ chars[2] = "\n"
              THEN <<"\n">> \o read_text(SubSeq(chars, 3, Len(chars)))
              ELSE <<"\n">> \o read_text(Tail(chars))
         ELSE <<Head(chars)>> \o read_text(Tail(chars))

\* The except branch passing silently, as the one around the page-1 image.
MapView_silent(file) ==
    IF file.exists
    THEN [html |-> <<read_text(file.content)>>, error |-> <<>>]
    ELSE [html |-> <<>>, error |-> <<>>]

\* The try/except around the map asset: the document is embedded, or
\* st.error names the file.
MapView(file) ==
    IF file.exists
    THEN [html |-> <<read_text(file.content)>>, error |-> <<>>]
    ELSE [html |-> <<>>, error |-> <<MapPath>>]

---------------------------------------------------------------------------
(* dashboard_final.py: the pages. *)

Pages ==
    <<"1. Introduction", "2. Station Popularity Analysis",
      "3. Seasonal Ridership Trends", "4. Geospatial Route Analysis",
      "5. Recommendations">>
PageSet == {Pages[i] : i \in 1 .. Len(Pages)}

season_options == <<"Winter", "Spring", "Summer", "Fall">>
SeasonSet == {season_options[i] : i \in 1 .. Len(season_options)}

\* The order of the season labels as strings, which groupby sorts by.
AlphaRank(season) ==
    CASE season = "Fall" -> 1
      [] season = "Spring" -> 2
      [] season = "Summer" -> 3
      [] season = "Winter" -> 4

\* The key pairs of a table in order of first appearance.
RECURSIVE first_seen_keys(_)
first_seen_keys(table) ==
    IF table = <<>> THEN <<>>
    ELSE LET init == first_seen_keys(SubSeq(table, 1, Len(table) - 1))
             last == <<table[Len(table)].start_station_name, table[Len(table)].season>>
         IN IF \E i \in 1 .. Len(init) : init[i] = last
            THEN init ELSE Append(init, last)

GroupSize(table, k) ==
    Cardinality({i \in 1 .. Len(table) :
                    /\ table[i].start_station_name = k[1]
                    /\ table[i].season = k[2]})

\* groupby(..., sort=False): the groups in order of first appearance.
groupby_size_unsorted(table) ==
    LET keys == first_seen_keys(table)
    IN [i \in 1 .. Len(keys) |->
          [start_station_name |-> keys[i][1], season |-> keys[i][2],
           trip_count |-> GroupSize(table, keys[i])]]

SortedKeys(keys) ==
    LET Before(k, l) == \/ k[1] < l[1]
                        \/ k[1] = l[1] /\ AlphaRank(k[2]) < AlphaRank(l[2])
    IN [i \in 1 .. Cardinality(keys) |->
          CHOOSE k \in keys : Cardinality({l \in keys : Before(l, k)}) = i - 1]

\* groupby over categorical keys: every station of the table paired with
\* every season of the table, the unobserved pairs with size 0.
groupby_size_all_pairs(table) ==
    LET keys == SortedKeys({table[i].start_station_name : i \in 1 .. Len(table)}
                           \X {table[i].season : i \in 1 .. Len(table)})
    IN [i \in 1 .. Len(keys) |->
          [start_station_name |-> keys[i][1], season |-> keys[i][2],
           trip_count |-> GroupSize(table, keys[i])]]

\* The size of every group taken over the station alone.
groupby_size_per_station(table) ==
    LET keys == SortedKeys({<<table[i].start_station_name, table[i].season>> :
                               i \in 1 .. Len(table)})
    IN [i \in 1 .. Len(keys) |->
          [start_station_name |-> keys[i][1], season |-> keys[i][2],
           trip_count |-> CountOf(Column(table, "start_station_name"), keys[i][1])]]

\* groupby(['start_station_name', 'season']).size().reset_index(name=
\* 'trip_count'): one row per observed key pair, sorted by the keys.
groupby_size(table) ==
    LET keys == SortedKeys({<<table[i].start_station_name, table[i].season>> :
                               i \in 1 .. Len(table)})
    IN [i \in 1 .. Len(keys) |->
          [start_station_name |-> keys[i][1], season |-> keys[i][2],
           trip_count |-> GroupSize(table, keys[i])]]

\* The traces of the stacked bar chart: one go.Bar per selected season, in
\* the order of season_options.
RECURSIVE StackedTraces(_, _, _)
StackedTraces(options, filter, stacked) ==
    IF options = <<>> THEN <<>>
    ELSE LET season == Head(options)
             InSeason(r) == r.season = season
             df_season == SelectSeq(stacked, InSeason)
             rest == StackedTraces(Tail(options), filter, stacked)
         IN IF season \in filter
            THEN <<[name |-> season,
                    x |-> Column(df_season, "trip_count"),
                    y |-> Column(df_season, "start_station_name")]>> \o rest
            ELSE rest

\* The first stations of the filtered table: .unique()[:20].
TopStationNames_first_seen(df_filtered) ==
    LET names == unique(Column(df_filtered, "start_station_name"))
    IN SubSeq(names, 1, IF Len(names) < TopN THEN Len(names) ELSE TopN)

\* top_20_station_names of the filtered table.
TopStationNames(df_filtered) ==
    Index(nlargest(value_counts(Column(df_filtered, "start_station_name")), TopN))

\* df_stacked_data of the filtered table.
StackedData(df_filtered) ==
    LET names == Range(TopStationNames(df_filtered))
        InTop(r) == r.start_station_name \in names
        df_top_20 == SelectSeq(df_filtered, InTop)
    IN groupby_size(df_top_20)

\* The else branch of page 2: the metric, the aggregation and the stacked
\* bar chart of the selected seasons.
SeasonalBreakdown(table, filter) ==
    LET InFilter(r) == r.season \in filter
        df_filtered == SelectSeq(table, InFilter)
        stacked == StackedData(df_filtered)
    IN [Blank EXCEPT
          !.body = Pages[2],
          !.metric = <<Len(df_filtered)>>,
          !.top_20_station_names = TopStationNames(df_filtered),
          !.df_stacked_data = stacked,
          !.fig_stacked_bar =
              Figure(StackedTraces(season_options, filter, stacked),
                     "total ascending")]

\* Page 2 reading an empty selection as every season.
StationPopularityPage_empty_is_all(table, filter) ==
    SeasonalBreakdown(table, IF filter = {} THEN SeasonSet ELSE filter)

\* Page 2 with the multiselect's value: only a warning for the empty
\* selection.
StationPopularityPage(table, filter) ==
    IF filter = {}
    THEN [Blank EXCEPT !.body = Pages[2], !.warning = TRUE]
    ELSE SeasonalBreakdown(table, filter)

\* The if/elif chain over the selected page.
PageContent(p, filter, table, daily) ==
    CASE p = Pages[2] -> StationPopularityPage(table, filter)
      [] p = Pages[3] -> [Blank EXCEPT !.body = p, !.fig_line = LineChart(daily)]
      [] p = Pages[4] ->
            LET m == MapView(map_html)
            IN [Blank EXCEPT !.body = p, !.html = m.html, !.error = m.error]
      [] OTHER -> [Blank EXCEPT !.body = p]

\* Page 2 filtering in place: df = df[df['season'].isin(season_filter)].
df_after_filtered_in_place(table, p, filter) ==
    LET InFilter(r) == r.season \in filter
    IN IF p = Pages[2] /\ filter # {} THEN SelectSeq(table, InFilter) ELSE table

\* The table the script's name df is bound to when the run ends: no page
\* assigns to it.
df_after(table, p, filter) == table

\* One run of dashboard_final.py with the widgets at p and filter.  The
\* multiselect exists only on page 2.
RunFinal(p, filter) ==
    LET r == cache_data(load_data_final)
    IN /\ io_log' = r.io
       /\ IF r.raised # <<>>
          THEN /\ out' = [Blank EXCEPT !.exception = r.raised]
               /\ widgets' = {}
               /\ UNCHANGED <<cache, df, df_daily, page, season_filter>>
          ELSE /\ cache' = <<[table |-> r.table, daily |-> r.daily]>>
               /\ df' = df_after(r.table, p, filter)
               /\ df_daily' = r.daily
               /\ page' = p
               /\ season_filter' = filter
               /\ widgets' = IF p = Pages[2] THEN {"page", "season"} ELSE {"page"}
               /\ out' = PageContent(p, filter, r.table, r.daily)
       /\ UNCHANGED <<script, trip_csv, routes_csv, daily_csv, map_html,
                      tie_perm, df_top_20_stations>>

---------------------------------------------------------------------------
(* dashboard.py. *)

\* groupby('start_station_name')['trip_count'].sum(): one entry per station
\* of the route file, sorted by station.
RECURSIVE SumTrips(_, _)
SumTrips(rows, station) ==
    IF rows = <<>> THEN 0
    ELSE (IF Head(rows).start_station_name = station
          THEN Head(rows).trip_count ELSE 0) + SumTrips(Tail(rows), station)

groupby_sum(rows) ==
    LET keys == {rows[i].start_station_name : i \in 1 .. Len(rows)}
    IN [i \in 1 .. Cardinality(keys) |->
          LET k == CHOOSE k \in keys :
                      Cardinality({l \in keys : l < k}) = i - 1
          IN [key |-> k, val |-> SumTrips(rows, k)]]

\* .nlargest(20).reset_index(): the rows of df_top_20_stations.
TopStations(rows) ==
    LET top == nlargest(groupby_sum(rows), TopN)
    IN [i \in 1 .. Len(top) |->
          [start_station_name |-> top[i].key, trip_count |-> top[i].val]]

load_data_basic ==
    IF ~routes_csv.exists THEN Raised(RoutesPath, <<RoutesPath>>)
    ELSE IF ~daily_csv.exists THEN Raised(DailyPath, <<RoutesPath, DailyPath>>)
    ELSE Loaded(TopStations(routes_csv.content), daily_csv.content,
                <<RoutesPath, DailyPath>>)

\* The three visualizations, top to bottom.
BasicContent(table, daily) ==
    LET m == MapView(map_html)
    IN [Blank EXCEPT
          !.body = "NYC Citi Bike Strategic Dashboard",
          !.fig_bar = Figure(<<[name |-> "",
                                x |-> Column(table, "trip_count"),
                                y |-> Column(table, "start_station_name")]>>,
                             "reversed"),
          !.fig_line = LineChart(daily),
          !.html = m.html,
          !.error = m.error]

\* One run of dashboard.py; it has no widgets.
RunBasic ==
    LET r == cache_data(load_data_basic)
    IN /\ io_log' = r.io
       /\ IF r.raised # <<>>
          THEN /\ out' = [Blank EXCEPT !.exception = r.raised]
               /\ UNCHANGED <<cache, df_top_20_stations, df_daily>>
          ELSE /\ cache' = <<[table |-> r.table, daily |-> r.daily]>>
               /\ df_top_20_stations' = r.table
               /\ df_daily' = r.daily
               /\ out' = BasicContent(r.table, r.daily)
       /\ UNCHANGED <<script, trip_csv, routes_csv, daily_csv, map_html,
                      tie_perm, df, page, season_filter, widgets>>

---------------------------------------------------------------------------
(* The sessions. *)

Final == "dashboard_final.py"
Basic == "dashboard.py"

\* Before the first run: nothing loaded, nothing on the page, the widgets at
\* their defaults (the first page, every season).
Fresh ==
    /\ tie_perm \in Permutations(1 .. Cardinality(Stations))
    /\ started = FALSE
    /\ cache = <<>>
    /\ df = <<>>
    /\ df_top_20_stations = <<>>
    /\ df_daily = <<>>
    /\ page = Pages[1]
    /\ season_filter = SeasonSet
    /\ widgets = {}
    /\ io_log = <<>>
    /\ out = Blank

Files(contents) == {File(c) : c \in contents}
AnyDaily == {Missing} \cup Files(DailyTables)
AnyMap == {Missing} \cup Files(Seqs(HtmlChars, MaxHtml))

\* A session of script s over files drawn from the given sets.
Session(s, trips, routes, dailies, maps) ==
    /\ script = s
    /\ trip_csv \in trips
    /\ routes_csv \in routes
    /\ daily_csv \in dailies
    /\ map_html \in maps
    /\ Fresh

\* dashboard_final.py over every trip file of the sample months.
InitAggregation ==
    Session(Final, Files(Seqs(TripRows(SampleMonths), MaxTrips)), {Missing},
            {File(SampleDaily)}, {File(SampleMap)})

\* dashboard_final.py over the one-row trip files of every month and of a
\* missing timestamp.
InitSeasons ==
    Session(Final, Files({<<r>> : r \in TripRows(Months \cup {NaT})}), {Missing},
            {File(SampleDaily)}, {File(SampleMap)})

\* dashboard_final.py with each of its files present or missing.
InitAssets ==
    \/ Session(Final, {Missing, File(SampleTrips)}, {Missing}, AnyDaily,
               {File(SampleMap)})
    \/ Session(Final, {File(SampleTrips)}, {Missing}, {File(SampleDaily)}, AnyMap)

\* dashboard.py over every route file, and with each of its files present
\* or missing.
InitBasic ==
    \/ Session(Basic, {Missing}, {Missing} \cup Files(Seqs(RouteRows, MaxRoutes)),
               {File(SampleDaily)}, {File(SampleMap)})
    \/ Session(Basic, {Missing}, {Missing, File(SampleRoutes)}, AnyDaily,
               {File(SampleMap)})
    \/ Session(Basic, {Missing}, {File(SampleRoutes)}, {File(SampleDaily)}, AnyMap)

Init == InitAggregation \/ InitSeasons \/ InitAssets \/ InitBasic

\* The first visit.
Start ==
    /\ ~started
    /\ started' = TRUE
    /\ IF script = Final THEN RunFinal(Pages[1], SeasonSet) ELSE RunBasic

\* The user picks another page in the sidebar.  The multiselect is created
\* anew, with every season selected, when page 2 is entered.
SelectPage(p) ==
    /\ started /\ script = Final
    /\ "page" \in widgets
    /\ p # page
    /\ RunFinal(p, SeasonSet)
    /\ UNCHANGED started

\* The user adds a season to the selection on page 2, or removes one.
SelectSeason(season) ==
    /\ started /\ script = Final
    /\ "season" \in widgets
    /\ RunFinal(page, IF season \in season_filter
                      THEN season_filter \ {season}
                      ELSE season_filter \cup {season})
    /\ UNCHANGED started

\* The user clears the selection with the multiselect's clear button.
ClearSeasons ==
    /\ started /\ script = Final
    /\ "season" \in widgets
    /\ season_filter # {}
    /\ RunFinal(page, {})
    /\ UNCHANGED started

\* The user reruns the script: every widget keeps its value.
Rerun ==
    /\ started
    /\ IF script = Final THEN RunFinal(page, season_filter) ELSE RunBasic
    /\ UNCHANGED started

Next ==
    \/ Start
    \/ \E p \in PageSet : SelectPage(p)
    \/ \E season \in SeasonSet : SelectSeason(season)
    \/ ClearSeasons
    \/ Rerun

Spec == Init /\ [][Next]_vars

---------------------------------------------------------------------------
(* Properties. *)

\* The latest run rendered the seasonal breakdown of page 2.
BreakdownShown ==
    script = Final /\ out.body = Pages[2] /\ season_filter # {}

\* The trips of a station, or of a station and season, that the selection
\* keeps.
FilteredTrips(station) ==
    Cardinality({i \in 1 .. Len(df) :
                    /\ df[i].start_station_name = station
                    /\ df[i].season \in season_filter})
PairTrips(station, season) ==
    Cardinality({i \in 1 .. Len(df) :
                    /\ df[i].start_station_name = station
                    /\ df[i].season = season})
\* The first row of a station that the selection keeps.
FirstSeen(station) ==
    CHOOSE i \in 1 .. Len(df) :
        /\ df[i].start_station_name = station /\ df[i].season \in season_filter
        /\ \A j \in 1 .. i - 1 :
              ~(df[j].start_station_name = station /\ df[j].season \in season_filter)
FilteredStations == {st \in Stations : FilteredTrips(st) > 0}
KeptStations == {out.top_20_station_names[i] : i \in 1 .. Len(out.top_20_station_names)}
Min(a, b) == IF a < b THEN a ELSE b

RECURSIVE EmittedTrips(_, _)
EmittedTrips(stacked, station) ==
    IF stacked = <<>> THEN 0
    ELSE (IF Head(stacked).start_station_name = station
          THEN Head(stacked).trip_count ELSE 0) + EmittedTrips(Tail(stacked), station)

\* C1: whenever the season multiselect is on the page and nothing is
\* selected in it, the run has produced no aggregate, no ranking and no
\* chart series.
C1_EmptySelectionYieldsNothing ==
    ("season" \in widgets /\ season_filter = {}) =>
        /\ out.df_stacked_data = <<>>
        /\ out.top_20_station_names = <<>>
        /\ out.fig_stacked_bar.data = <<>>
        /\ out.metric = <<>>

C1_Witness ==
    /\ "season" \in widgets /\ season_filter = {}
    /\ out.body = Pages[2] /\ out.warning
    /\ \E i \in 1 .. Len(df) : df[i].season \in SeasonSet

\* C2: every loaded trip record whose month is in 1..12 carries exactly the
\* season of the fixed table.
C2_SeasonTable ==
    \A i \in 1 .. Len(df) :
        df[i].month \in 1 .. 12 =>
            /\ df[i].season \in {"Winter", "Spring", "Summer", "Fall"}
            /\ df[i].season = "Winter" <=> df[i].month \in {12, 1, 2}
            /\ df[i].season = "Spring" <=> df[i].month \in {3, 4, 5}
            /\ df[i].season = "Summer" <=> df[i].month \in {6, 7, 8}
            /\ df[i].season = "Fall" <=> df[i].month \in {9, 10, 11}

C2_Witness ==
    \E i \in 1 .. Len(df) : df[i].month = 12 /\ df[i].season = "Winter"

\* C3: for every station in the aggregation output, its emitted counts sum
\* to the number of its records whose season is selected.
C3_CountsSumToFilteredTotal ==
    BreakdownShown =>
        \A i \in 1 .. Len(out.df_stacked_data) :
            LET station == out.df_stacked_data[i].start_station_name
            IN EmittedTrips(out.df_stacked_data, station) = FilteredTrips(station)

C3_Witness ==
    /\ BreakdownShown
    /\ season_filter # SeasonSet
    /\ \E i, j \in 1 .. Len(out.df_stacked_data) :
          /\ i # j
          /\ out.df_stacked_data[i].start_station_name =
                out.df_stacked_data[j].start_station_name

DisplayRank(season) ==
    CHOOSE i \in 1 .. Len(season_options) : season_options[i] = season

\* C5 as claimed: the aggregates are ordered by descending filtered total of
\* their station and, within a station, by season in the order Winter,
\* Spring, Summer, Fall.
C5_OrderedByTotal ==
    BreakdownShown =>
        \A i, j \in 1 .. Len(out.df_stacked_data) :
            i < j =>
              LET a == out.df_stacked_data[i]
                  b == out.df_stacked_data[j]
              IN /\ FilteredTrips(a.start_station_name) >=
                      FilteredTrips(b.start_station_name)
                 /\ a.start_station_name = b.start_station_name =>
                      DisplayRank(a.season) < DisplayRank(b.season)

\* C5 as amended: the aggregates are ordered by station name and, within a
\* station, by season label as a string; the chart gets one series per
\* selected season in the order Winter, Spring, Summer, Fall, each listing
\* that season's aggregates in station-name order, and the ordering of the
\* stations by total is left to the chart (categoryorder 'total ascending').
C5_OrderedByName ==
    BreakdownShown =>
        /\ \A i, j \in 1 .. Len(out.df_stacked_data) :
              i < j =>
                LET a == out.df_stacked_data[i]
                    b == out.df_stacked_data[j]
                IN \/ a.start_station_name < b.start_station_name
                   \/ /\ a.start_station_name = b.start_station_name
                      /\ AlphaRank(a.season) < AlphaRank(b.season)
        /\ LET data == out.fig_stacked_bar.data
           IN /\ {data[i].name : i \in 1 .. Len(data)} = season_filter
              /\ \A i, j \in 1 .. Len(data) :
                    i < j => DisplayRank(data[i].name) < DisplayRank(data[j].name)
              /\ \A i \in 1 .. Len(data) :
                    /\ Len(data[i].x) = Len(data[i].y)
                    /\ \A k, l \in 1 .. Len(data[i].y) :
                          k < l => data[i].y[k] < data[i].y[l]
                    /\ \A k \in 1 .. Len(data[i].y) :
                          data[i].x[k] = PairTrips(data[i].y[k], data[i].name)
        /\ out.fig_stacked_bar.categoryorder = "total ascending"

C5_Witness ==
    /\ BreakdownShown
    /\ \E i, j \in 1 .. Len(out.df_stacked_data) :
          /\ i < j
          /\ FilteredTrips(out.df_stacked_data[i].start_station_name) <
                FilteredTrips(out.df_stacked_data[j].start_station_name)
    /\ \E i \in 1 .. Len(out.df_stacked_data) - 1 :
          /\ out.df_stacked_data[i].start_station_name =
                out.df_stacked_data[i + 1].start_station_name
          /\ out.df_stacked_data[i].season = "Fall"
          /\ out.df_stacked_data[i + 1].season = "Winter"

\* C6: once the script has run over a trip file holding a row whose month
\* is outside 1..12, the run has ended in the error InvalidMonth and no
\* trip table is loaded.
C6_InvalidMonthFails ==
    (/\ started /\ script = Final /\ trip_csv.exists /\ daily_csv.exists
     /\ \E i \in 1 .. Len(trip_csv.content) :
           trip_csv.content[i].started_at \notin 1 .. 12)
    => /\ out.exception # <<>>
       /\ out.exception[1] = "InvalidMonth"
       /\ df = <<>>

\* C7: the aggregation emits exactly one aggregate for each pair of a kept
\* station and a selected season that has a filtered record, with a
\* positive count, and nothing else.
C7_OneAggregatePerObservedPair ==
    BreakdownShown =>
        /\ \A i \in 1 .. Len(out.df_stacked_data) :
              LET a == out.df_stacked_data[i]
              IN /\ a.start_station_name \in KeptStations
                 /\ a.season \in season_filter
                 /\ a.trip_count >= 1
                 /\ PairTrips(a.start_station_name, a.season) >= 1
        /\ \A station \in KeptStations : \A season \in season_filter :
              PairTrips(station, season) >= 1 =>
                Cardinality({i \in 1 .. Len(out.df_stacked_data) :
                    /\ out.df_stacked_data[i].start_station_name = station
                    /\ out.df_stacked_data[i].season = season}) = 1
        /\ \A i, j \in 1 .. Len(out.df_stacked_data) :
              (/\ out.df_stacked_data[i].start_station_name =
                    out.df_stacked_data[j].start_station_name
               /\ out.df_stacked_data[i].season = out.df_stacked_data[j].season)
              => i = j

C7_Witness ==
    /\ BreakdownShown
    /\ out.df_stacked_data # <<>>
    /\ \E station \in KeptStations : \E season \in season_filter :
          PairTrips(station, season) = 0
    /\ \E station \in KeptStations :
          PairTrips(station, "Winter") > 0 /\ PairTrips(station, "Fall") > 0
          /\ {"Winter", "Fall"} \subseteq season_filter

\* C8: once load_data has returned, no run changes the cached result, the
\* trip-record table, the station table or the daily-summary table.
C8_TablesReadOnly ==
    [][cache # <<>> =>
         /\ cache' = cache
         /\ df' = df
         /\ df_top_20_stations' = df_top_20_stations
         /\ df_daily' = df_daily]_vars

C8_Witness ==
    /\ BreakdownShown
    /\ cache # <<>> /\ df = cache[1].table /\ df_daily = cache[1].daily
    /\ df_daily # <<>>
    /\ out.metric # <<>> /\ out.metric[1] < Len(df)
    /\ out.df_stacked_data # <<>>

\* The data files the script reads, in the order load_data opens them.
DataFiles ==
    IF script = Final
    THEN <<[path |-> TripPath, file |-> trip_csv], [path |-> DailyPath, file |-> daily_csv]>>
    ELSE <<[path |-> RoutesPath, file |-> routes_csv], [path |-> DailyPath, file |-> daily_csv]>>
DataMissing == \E i \in 1 .. Len(DataFiles) : ~DataFiles[i].file.exists
FirstMissing ==
    DataFiles[CHOOSE i \in 1 .. Len(DataFiles) :
                 /\ ~DataFiles[i].file.exists
                 /\ \A j \in 1 .. i - 1 : DataFiles[j].file.exists].path

\* C9: once the script has run with a data file missing, the run has ended
\* in the missing-file error (Python's FileNotFoundError) naming that path,
\* nothing else is on the page, no table is loaded or cached, and the run
\* tried the missing file once.
C9_MissingDataFileIsFatal ==
    (started /\ DataMissing) =>
        /\ out = [Blank EXCEPT !.exception = <<"FileNotFoundError", FirstMissing>>]
        /\ widgets = {}
        /\ cache = <<>>
        /\ df = <<>> /\ df_top_20_stations = <<>> /\ df_daily = <<>>
        /\ Cardinality({i \in 1 .. Len(io_log) : io_log[i] = FirstMissing}) = 1
        /\ io_log[Len(io_log)] = FirstMissing

C9_Witness ==
    /\ started /\ script = Final
    /\ trip_csv.exists /\ trip_csv.content # <<>> /\ ~daily_csv.exists
    /\ out.exception = <<"FileNotFoundError", DailyPath>>

\* The latest run reached the code that shows the route map.
MapViewShown ==
    /\ started /\ out.exception = <<>>
    /\ script = Final => out.body = Pages[4]

\* A text with "\r\n" and every other "\r" replaced by "\n".
Normalised(chars) ==
    LET kept == {i \in 1 .. Len(chars) :
                    ~(chars[i] = "\n" /\ i > 1 /\ chars[i - 1] = "\r")}
    IN [k \in 1 .. Cardinality(kept) |->
          LET i == CHOOSE i \in kept : Cardinality({j \in kept : j < i}) = k - 1
          IN IF chars[i] = "\r" THEN "\n" ELSE chars[i]]

\* A missing map asset aborts nothing: with the data files in place no run
\* ends in an exception, and the other views are rendered.
OtherViewsRender ==
    (started /\ ~DataMissing) =>
        /\ out.exception = <<>>
        /\ script = Basic =>
              /\ out.fig_bar.shown
              /\ out.fig_line.shown /\ out.fig_line = LineChart(df_daily)
        /\ script = Final =>
              /\ "page" \in widgets
              /\ out.body = page
              /\ page = Pages[2] => out.warning \/ out.fig_stacked_bar.shown
              /\ page = Pages[3] =>
                    out.fig_line.shown /\ out.fig_line = LineChart(df_daily)

\* C10 as claimed: where the map is shown, a missing asset gives the error
\* naming the file and no map, an existing one is embedded unmodified with
\* no error; and the other views render whether or not the asset exists.
C10_EmbeddedUnmodified ==
    /\ OtherViewsRender
    /\ MapViewShown =>
          IF map_html.exists
          THEN out.html = <<map_html.content>> /\ out.error = <<>>
          ELSE out.html = <<>> /\ out.error = <<MapPath>>

\* C10 as amended: the same, except that an existing asset is embedded as
\* read in text mode, its line endings "\r\n" and "\r" turned into "\n".
C10_EmbeddedAsRead ==
    /\ OtherViewsRender
    /\ MapViewShown =>
          IF map_html.exists
          THEN out.html = <<Normalised(map_html.content)>> /\ out.error = <<>>
          ELSE out.html = <<>> /\ out.error = <<MapPath>>

C10_Witness ==
    /\ script = Final /\ page = Pages[4] /\ out.body = Pages[4]
    /\ ~map_html.exists
    /\ out.error = <<MapPath>> /\ out.html = <<>>
    /\ "page" \in widgets

=============================================================================
